---- MODULE Spec2Model ----
(***************************************************************************)
(* A model of recall.py: the memory store (save/load, snapshots, history,  *)
(* time-travel reads), the commands that mutate the live record (pack,     *)
(* update, describe, note, session) and the BM25 ranking search.           *)
(*                                                                         *)
(* Time is a counter of clock ticks (the resolution of datetime.now()).    *)
(* isoformat() keeps the whole reading, strftime("%Y%m%d_%H%M%S") keeps    *)
(* only the day and the second of the day.                                 *)
(***************************************************************************)
EXTENDS Integers, Sequences, FiniteSets, TLC

\* ------------------------------------------------------------------ bounds
\* The clock stops the model at MaxTime ticks.
MaxTime == 4
\* Clock ticks in one second, and seconds in one calendar day, of the model.
TicksPerSec == 2
SecsPerDay == 2
\* Days in one calendar month of the model.
DaysPerMonth == 2
\* Distinct contents the project directory can have.
MaxTree == 2
\* Caps on the two annotation logs.
MaxDecisions == 2
MaxSessions == 1
\* JSON members of the payload an interrupted write can have got out.
TornMembers == 1

TicksPerDay == TicksPerSec * SecsPerDay

\* ------------------------------------------------------------ configuration
\* Project aliases of the central store (~/.recall/memories/<alias>.mem).
Aliases == {"a"}
\* get_current_project() of an absent CURRENT_FILE.
NoAlias == "none"
\* The project-local file <project>/<project>.mem written by a pack without --name.
LocalFile == "local"
Locations == Aliases \cup {LocalFile}
Trees == 1..MaxTree
Texts == {"t1"}

\* ------------------------------------------------------------------- clock
\* The calendar date of a day, as the digits of "%Y%m%d": month, day of month.
DateStr(day) == <<day \div DaysPerMonth, day % DaysPerMonth>>

DayOf(t) == t \div TicksPerDay
SecOf(t) == (t % TicksPerDay) \div TicksPerSec

\* datetime.now().isoformat(): date, second of the day, fraction of the second.
\* Python compares these strings character by character.
IsoFormat(t) == DateStr(DayOf(t)) \o <<SecOf(t), t % TicksPerSec>>

\* datetime.now().strftime("%Y%m%d_%H%M%S"): the fraction of the second is dropped.
StrfTime(t) == DateStr(DayOf(t)) \o <<SecOf(t)>>

\* snap_file.stem.split("_")[0] and memory["updated"][:10]: the date digits.
DatePart(stamp) == SubSeq(stamp, 1, 2)

\* String comparison of two equally long digit strings.
RECURSIVE StrLess(_, _)
StrLess(s, u) ==
  IF s = <<>> \/ u = <<>> THEN s = <<>> /\ u # <<>>
  ELSE IF Head(s) # Head(u) THEN Head(s) < Head(u)
  ELSE StrLess(Tail(s), Tail(u))

StrLeq(s, u) == s = u \/ StrLess(s, u)

\* ------------------------------------------------------------- the record
FieldOrder ==
  <<"version", "project", "path", "created", "updated", "description",
    "summary", "stack", "structure", "directories", "key_files", "stats",
    "entities", "decisions", "notes", "sessions", "index", "last_commit">>

\* analyze_project of the project directory with content `tree`, as cmd_pack
\* stores it: every structural field is a function of the scanned content.
Analysis(tree) ==
  [summary |-> tree, stack |-> tree, structure |-> tree, directories |-> tree,
   key_files |-> tree, stats |-> tree, entities |-> tree, index |-> tree,
   last_commit |-> tree]

StructuralFields ==
  {"summary", "stack", "structure", "directories", "key_files", "stats",
   "entities", "index", "last_commit"}

create_empty_memory(t) ==
  [version |-> "2.5", project |-> "proj", path |-> "/proj",
   created |-> IsoFormat(t), updated |-> IsoFormat(t),
   description |-> "", summary |-> 0, stack |-> 0, structure |-> 0,
   directories |-> 0, key_files |-> 0, stats |-> 0, entities |-> 0,
   decisions |-> <<>>, notes |-> <<>>, sessions |-> <<>>,
   index |-> 0, last_commit |-> 0]

\* dict.get(key, default)
Get(rec, key, default) == IF key \in DOMAIN rec THEN rec[key] ELSE default

\* ------------------------------------------------------------ file format
\* A file is a sequence of lines.  A line either starts with '#' or carries
\* payload: the base64 text of a gzip stream, which is the JSON members
\* written so far and, when the stream is complete, its end-of-stream trailer.
NoFile == [exists |-> FALSE, lines |-> <<>>]
CommentLine == [hash |-> TRUE, members |-> <<>>, eos |-> FALSE]

\* Mutant of JsonDumps: the last member of the object is left out.
JsonDumpsShort(memory) ==
  LET keys == SelectSeq(FieldOrder, LAMBDA k : k \in DOMAIN memory)
  IN [i \in 1..(Len(keys) - 1) |-> <<keys[i], memory[keys[i]]>>]

\* json.dumps(memory): the members of the object in insertion order.
JsonDumps(memory) ==
  LET keys == SelectSeq(FieldOrder, LAMBDA k : k \in DOMAIN memory)
  IN [i \in 1..Len(keys) |-> <<keys[i], memory[keys[i]]>>]

\* json.loads: an object of the members, a later member of the same key
\* replacing an earlier one; an empty document is an error.
RECURSIVE JsonLoads(_)
JsonLoads(members) ==
  IF members = <<>> THEN <<>>
  ELSE LET n == Len(members)
       IN (members[n][1] :> members[n][2]) @@ JsonLoads(SubSeq(members, 1, n - 1))

\* base64.b64encode(gzip.compress(json_str)): one line of payload.
PayloadLine(members) == [hash |-> FALSE, members |-> members, eos |-> TRUE]

\* The stamp of save_memory (line 308).
Stamp(memory, t) == [memory EXCEPT !.updated = IsoFormat(t)]

\* The file save_memory leaves when it runs to completion.
SavedFile(memory, t) ==
  [exists |-> TRUE,
   lines |-> <<CommentLine, CommentLine, PayloadLine(JsonDumps(Stamp(memory, t)))>>]

\* load_memory: drop the '#' lines, join the rest, decode.
RECURSIVE DataLines(_)
DataLines(lines) ==
  IF lines = <<>> THEN <<>>
  ELSE IF Head(lines).hash THEN DataLines(Tail(lines))
  ELSE <<Head(lines)>> \o DataLines(Tail(lines))

RECURSIVE Joined(_)
Joined(dl) == IF dl = <<>> THEN <<>> ELSE Head(dl).members \o Joined(Tail(dl))

NoRecord == [version |-> "none"]

\* status: "ok", "missing" (FileNotFoundError) or "corrupt" (binascii.Error,
\* EOFError, BadGzipFile or JSONDecodeError).
load_memory(file) ==
  IF ~file.exists THEN [status |-> "missing", rec |-> NoRecord]
  ELSE LET dl == DataLines(file.lines)
           members == Joined(dl)
       IN IF dl = <<>> \/ ~dl[Len(dl)].eos \/ members = <<>>
          THEN [status |-> "corrupt", rec |-> NoRecord]
          ELSE [status |-> "ok", rec |-> JsonLoads(members)]

Loadable(file) == load_memory(file).status = "ok"

\* ----------------------------------------------------------------- history
\* Mutant of SortedDesc: the reverse=True is dropped, oldest first.
RECURSIVE SortedAsc(_)
SortedAsc(ids) ==
  IF ids = {} THEN <<>>
  ELSE LET low == CHOOSE i \in ids : \A j \in ids : StrLeq(i, j)
       IN <<low>> \o SortedAsc(ids \ {low})

\* sorted(history_dir.glob("*.mem"), reverse=True): file names, greatest first.
RECURSIVE SortedDesc(_)
SortedDesc(ids) ==
  IF ids = {} THEN <<>>
  ELSE LET top == CHOOSE i \in ids : \A j \in ids : StrLeq(j, i)
       IN <<top>> \o SortedDesc(ids \ {top})

\* save_snapshot: the file is named by the second of the clock reading and
\* written with save_memory; a file of that name is opened for writing again.
SnapshotId(t) == StrfTime(t)
save_snapshot(h, memory, t) == (SnapshotId(t) :> SavedFile(memory, t)) @@ h

\* list_snapshots: newest first, a snapshot that does not load is skipped.
RECURSIVE ListLoadable(_, _)
ListLoadable(h, ids) ==
  IF ids = <<>> THEN <<>>
  ELSE LET l == load_memory(h[Head(ids)])
       IN (IF l.status = "ok"
           THEN <<[id |-> Head(ids),
                   date |-> DatePart(Get(l.rec, "updated", <<>>))]>>
           ELSE <<>>) \o ListLoadable(h, Tail(ids))

list_snapshots(h) == ListLoadable(h, SortedDesc(DOMAIN h))

\* load_snapshot_at: the first snapshot, newest first, whose date is not
\* after target_date = date_str.replace("-", ""), the digits of the day
\* asked for.  status "none" is the None the caller reports as not found; a
\* snapshot that does not load raises.
RECURSIVE FirstNotAfter(_, _, _)
FirstNotAfter(h, ids, target) ==
  IF ids = <<>> THEN [status |-> "none", id |-> <<>>, rec |-> NoRecord]
  ELSE IF StrLeq(DatePart(Head(ids)), target)
       THEN LET l == load_memory(h[Head(ids)])
            IN [status |-> l.status, id |-> Head(ids), rec |-> l.rec]
       ELSE FirstNotAfter(h, Tail(ids), target)

load_snapshot_at(h, day) ==
  FirstNotAfter(h, SortedDesc(DOMAIN h), DateStr(day))

\* ------------------------------------------------------------------- state
VARIABLES
  \* the store and its commands
  now,       \* the last reading of the clock any invocation took
  files,     \* the live record file at each location
  history,   \* per alias: snapshot id -> snapshot file
  current,   \* the active project (CURRENT_FILE)
  last,      \* the last invocation that wrote a record file
  packs,     \* history variable: completed packs under each alias
  recorded,  \* history variable: the logs of the last completed save per location
  \* save_memory and load_memory on one file
  arg,       \* the record handed to save_memory, as the caller built it
  at,        \* the clock reading of the last save_memory
  lfile,     \* the file
  lres,      \* what load_memory made of the file, once it has run on it
  \* the BM25 engine
  corpus,    \* the documents, in the order they were indexed
  query,     \* the last query
  top_k,     \* its top_k
  results,   \* what search returned for it, once it has
  \* the project scan
  scanned,   \* files_data: the files of the project in scan order
  key_files, \* what identify_key_files made of them, once it has run
  \* the query log
  qfile,     \* QUERIES_FILE
  logged,    \* history variable: the entries of every log_query that returned
  qlast,     \* how the last log_query ended
  \* invocations running at the same time
  pc,        \* where each invocation is
  held,      \* the command of each invocation and the record it has in memory
  closed,    \* history variable: the invocations in the order their saves ended
  \* entity extraction
  content,   \* the text of one file, line by line
  suffix,    \* its file-type tag
  entities,  \* what extract_entities made of it, once it has run
  \* stack detection
  imports,    \* all_imports: the imports of the project
  extensions, \* by_extension: code files per suffix
  sfiles,     \* the paths of the files handed to detect_stack
  stack,      \* what detect_stack made of them, once it has run
  \* analyze_project, file by file
  walked,             \* the files of the walk visited so far
  by_extension,       \* the code files counted so far
  search_corpus,      \* the documents of the search corpus
  file_to_corpus_idx, \* path -> position of its document
  analysis            \* what analyze_project returned, once it has

storeVars == <<now, files, history, current, last, packs, recorded>>
loadVars == <<arg, at, lfile, lres>>
bmVars == <<corpus, query, top_k, results>>
scanVars == <<scanned, key_files>>
logVars == <<qfile, logged, qlast>>
raceVars == <<pc, held, closed>>
entVars == <<content, suffix, entities>>
stackVars == <<imports, extensions, sfiles, stack>>
anVars == <<walked, by_extension, search_corpus, file_to_corpus_idx, analysis>>
vars ==
  <<storeVars, loadVars, bmVars, scanVars, logVars, raceVars, entVars, stackVars,
    anVars>>

\* What the steps of each part leave alone.
notStore == <<loadVars, bmVars, scanVars, logVars, raceVars, entVars, stackVars, anVars>>
notLoad == <<storeVars, bmVars, scanVars, logVars, raceVars, entVars, stackVars, anVars>>
notBM == <<storeVars, loadVars, scanVars, logVars, raceVars, entVars, stackVars, anVars>>
notScan == <<storeVars, loadVars, bmVars, logVars, raceVars, entVars, stackVars, anVars>>
notLog == <<storeVars, loadVars, bmVars, scanVars, raceVars, entVars, stackVars, anVars>>
notRace == <<loadVars, bmVars, scanVars, logVars, entVars, stackVars, anVars>>
notEnt == <<storeVars, loadVars, bmVars, scanVars, logVars, raceVars, stackVars, anVars>>
notStack == <<storeVars, loadVars, bmVars, scanVars, logVars, raceVars, entVars, anVars>>
notAn == <<storeVars, loadVars, bmVars, logVars, raceVars, entVars, stackVars>>

NoLogs == [decisions |-> <<>>, sessions |-> <<>>]

InitStore ==
  /\ now = 0
  /\ files = [l \in Locations |-> NoFile]
  /\ history = [a \in Aliases |-> <<>>]
  /\ current = NoAlias
  /\ last = "init"
  /\ packs = [a \in Aliases |-> 0]
  /\ recorded = [l \in Locations |-> NoLogs]

NotLoaded == [status |-> "notloaded", rec |-> NoRecord]

NoResults == [phase |-> "idle", list |-> <<>>]

\* The other parts at rest.
IdleLoad ==
  /\ arg = NoRecord
  /\ at = 0
  /\ lfile = NoFile
  /\ lres = NotLoaded

IdleBM ==
  /\ corpus = <<>>
  /\ query = <<>>
  /\ top_k = 0
  /\ results = NoResults

NotIdentified == [phase |-> "scanning", list |-> <<>>]

IdleScan ==
  /\ scanned = <<>>
  /\ key_files = NotIdentified

\* The queries file before the first query is logged.
NoQueriesFile == [exists |-> FALSE, json |-> "none", items |-> <<>>]

IdleLog ==
  /\ qfile = NoQueriesFile
  /\ logged = <<>>
  /\ qlast = "none"

\* The invocations that may run at the same time, none started.
Procs == {1, 2}
NothingHeld == [cmd |-> "none", memory |-> NoRecord]

IdleRace ==
  /\ pc = [p \in Procs |-> "ready"]
  /\ held = [p \in Procs |-> NothingHeld]
  /\ closed = <<>>

\* No file text, nothing extracted.
NotExtracted ==
  [phase |-> "idle", todos |-> <<>>, notes |-> <<>>, decisions |-> <<>>,
   warnings |-> <<>>, descriptions |-> <<>>]

IdleEnt ==
  /\ content = <<>>
  /\ suffix = ".py"
  /\ entities = NotExtracted

\* No project, no stack detected.
NotDetected == [phase |-> "idle", dict |-> <<>>]

IdleStack ==
  /\ imports = {}
  /\ extensions = [e \in {".ts", ".tsx", ".py"} |-> 0]
  /\ sfiles = {}
  /\ stack = NotDetected

\* analyze_project before the walk.
NotAnalyzed ==
  [phase |-> "walking", files |-> <<>>, search_corpus |-> <<>>,
   file_to_corpus_idx |-> <<>>, total_files |-> 0, by_extension |-> 0]

IdleAn ==
  /\ walked = 0
  /\ by_extension = 0
  /\ search_corpus = <<>>
  /\ file_to_corpus_idx = <<>>
  /\ analysis = NotAnalyzed

\* find_mem_file(): the first .mem file of the working directory.
find_mem_file == IF files[LocalFile].exists THEN LocalFile ELSE NoAlias

\* mem_file = get_memory_path(current) if current else find_mem_file()
MemFile == IF current # NoAlias THEN current ELSE find_mem_file

LogsOf(memory) ==
  [decisions |-> memory.decisions, sessions |-> memory.sessions]

\* ------------------------------------------------------------------- pack
\* Mutant of PackMemory: the loaded record's user data is not carried over.
PackMemoryFresh(existing, tree, t) ==
  LET an == Analysis(tree)
  IN [create_empty_memory(t) EXCEPT
        !.summary = an.summary, !.stack = an.stack,
        !.structure = an.structure, !.directories = an.directories,
        !.key_files = an.key_files, !.stats = an.stats,
        !.last_commit = an.last_commit, !.entities = an.entities,
        !.index = an.index]

\* Mutant of PackMemory: line 727 is left out, created is that of the re-pack.
PackMemoryNewCreated(existing, tree, t) ==
  LET fresh == create_empty_memory(t)
      carried ==
        IF existing.status = "ok"
        THEN [fresh EXCEPT
                !.description = Get(existing.rec, "description", ""),
                !.decisions = Get(existing.rec, "decisions", <<>>),
                !.notes = Get(existing.rec, "notes", <<>>),
                !.sessions = Get(existing.rec, "sessions", <<>>)]
        ELSE fresh
      an == Analysis(tree)
  IN [carried EXCEPT
        !.summary = an.summary, !.stack = an.stack,
        !.structure = an.structure, !.directories = an.directories,
        !.key_files = an.key_files, !.stats = an.stats,
        !.last_commit = an.last_commit, !.entities = an.entities,
        !.index = an.index]

\* cmd_pack, lines 720-745: a fresh record, the user's data carried over from
\* the record that was loaded, the structural fields from the analysis.
PackMemory(existing, tree, t) ==
  LET fresh == create_empty_memory(t)
      carried ==
        IF existing.status = "ok"
        THEN [fresh EXCEPT
                !.description = Get(existing.rec, "description", ""),
                !.decisions = Get(existing.rec, "decisions", <<>>),
                !.notes = Get(existing.rec, "notes", <<>>),
                !.sessions = Get(existing.rec, "sessions", <<>>),
                !.created = Get(existing.rec, "created", fresh.created)]
        ELSE fresh
      an == Analysis(tree)
  IN [carried EXCEPT
        !.summary = an.summary, !.stack = an.stack,
        !.structure = an.structure, !.directories = an.directories,
        !.key_files = an.key_files, !.stats = an.stats,
        !.last_commit = an.last_commit, !.entities = an.entities,
        !.index = an.index]

\* Mutant of TakesSnapshot: a record without decisions is not snapshotted.
TakesSnapshotOfNoted(name, existing) ==
  /\ existing.status = "ok"
  /\ name # NoAlias
  /\ Get(existing.rec, "decisions", <<>>) # <<>>

\* Whether cmd_pack snapshots what it loaded (lines 710-716).
TakesSnapshot(name, existing) == existing.status = "ok" /\ name # NoAlias

\* An invocation that exits, or raises, before it writes anything.
Failed == UNCHANGED vars

\* cmd_pack with --name `name` (NoAlias: without --name, into the project-local
\* file) and no --output, of a project directory with content `tree`.  The
\* snapshot reads the clock at t1, the new record is created and saved at t2.
cmd_pack(name) ==
  LET loc == IF name = NoAlias THEN LocalFile ELSE name
      existing == load_memory(files[loc])
  IN \E t2 \in {now + 1, now + 2}, tree \in Trees :
       LET t1 == now + 1
           memory == PackMemory(existing, tree, t2)
       IN /\ t2 <= MaxTime
          /\ t2 # t1 => TakesSnapshot(name, existing)
          /\ history' = IF TakesSnapshot(name, existing)
                        THEN [history EXCEPT
                                ![name] = save_snapshot(@, existing.rec, t1)]
                        ELSE history
          /\ files' = [files EXCEPT ![loc] = SavedFile(memory, t2)]
          /\ recorded' = [recorded EXCEPT ![loc] = LogsOf(memory)]
          /\ packs' = IF name # NoAlias
                      THEN [packs EXCEPT ![name] = @ + 1] ELSE packs
          /\ current' = IF name # NoAlias THEN name ELSE current
          /\ now' = t2
          /\ last' = "pack"
          /\ UNCHANGED notStore

Pack == \E name \in Aliases \cup {NoAlias} : cmd_pack(name)

\* cmd_update: re-pack the active project.
Update ==
  IF current = NoAlias \/ ~Loadable(files[current])
  THEN Failed
  ELSE cmd_pack(current)

\* Time passes between invocations.
Wait ==
  /\ now < MaxTime
  /\ now' = now + 1
  /\ UNCHANGED <<files, history, current, last, packs, recorded, notStore>>

\* cmd_use: the active project is set before the record is loaded.
Use ==
  \E alias \in Aliases :
    IF ~files[alias].exists
    THEN Failed
    ELSE /\ current' = alias
         /\ UNCHANGED <<now, files, history, last, packs, recorded, notStore>>

\* ------------------------------------------------- describe, note, session
\* The load every annotation command starts with: "nofile" is the command's
\* own "No .mem file found" exit, any other failure is load_memory's.
LoadTarget(checksExists) ==
  IF MemFile = NoAlias THEN [status |-> "nofile", rec |-> NoRecord]
  ELSE IF checksExists /\ ~files[MemFile].exists
       THEN [status |-> "nofile", rec |-> NoRecord]
       ELSE load_memory(files[MemFile])

\* save_memory(memory, mem_file) run to completion at clock reading t.
SaveLive(cmd, memory, t) ==
  /\ files' = [files EXCEPT ![MemFile] = SavedFile(memory, t)]
  /\ recorded' = [recorded EXCEPT ![MemFile] = LogsOf(memory)]
  /\ now' = t
  /\ last' = cmd
  /\ UNCHANGED <<history, current, packs, notStore>>

Described(rec, text) == [rec EXCEPT !.description = text]

\* Mutant of Noted: the entry is put in front of the list.
NotedInFront(rec, text, t) ==
  ("decisions" :>
     <<[date |-> IsoFormat(t), note |-> text]>> \o Get(rec, "decisions", <<>>))
  @@ rec

Noted(rec, text, t) ==
  ("decisions" :>
     Append(Get(rec, "decisions", <<>>), [date |-> IsoFormat(t), note |-> text]))
  @@ rec

Sessioned(rec, topic, t) ==
  ("sessions" :>
     Append(Get(rec, "sessions", <<>>), [date |-> IsoFormat(t), topic |-> topic]))
  @@ rec

cmd_describe(text) ==
  LET l == LoadTarget(TRUE)
  IN IF l.status # "ok" THEN Failed
     ELSE /\ now < MaxTime
          /\ SaveLive("describe", Described(l.rec, text), now + 1)

cmd_note(text) ==
  LET l == LoadTarget(FALSE)
  IN IF l.status # "ok" THEN Failed
     ELSE /\ now < MaxTime
          /\ Len(Get(l.rec, "decisions", <<>>)) < MaxDecisions
          /\ SaveLive("note", Noted(l.rec, text, now + 1), now + 1)

cmd_session(topic) ==
  LET l == LoadTarget(FALSE)
  IN IF l.status # "ok" THEN Failed
     ELSE /\ now < MaxTime
          /\ Len(Get(l.rec, "sessions", <<>>)) < MaxSessions
          /\ SaveLive("session", Sessioned(l.rec, topic, now + 1), now + 1)

Describe == \E text \in Texts : cmd_describe(text)
Note == \E text \in Texts : cmd_note(text)
Session == \E topic \in Texts : cmd_session(topic)

\* ------------------------------------------------------- read-only commands
\* Calendar dates a time-travel read can ask for.
Dates == 0..(MaxTime \div TicksPerDay + 1)

\* cmd_history prints list_snapshots(current); it writes nothing.
History ==
  /\ current # NoAlias
  /\ Len(list_snapshots(history[current])) >= 0
  /\ UNCHANGED vars

\* cmd_load --at date prints the record load_snapshot_at(current, date)
\* returns, or reports that there is none; it writes nothing.
LoadAt ==
  \E date \in Dates :
    /\ current # NoAlias
    /\ load_snapshot_at(history[current], date).status \in {"ok", "none"}
    /\ UNCHANGED vars

\* ------------------------------------------------------ interrupted saves
\* save_memory, lines 313-316, killed between open(filepath, 'w'), which
\* truncates the file, and the close: the file holds a prefix of what was
\* being written.
TornFiles(memory, t) ==
  LET full == SavedFile(memory, t).lines
      members == full[3].members
  IN {[exists |-> TRUE, lines |-> SubSeq(full, 1, n)] : n \in 0..2}
     \cup {[exists |-> TRUE,
            lines |-> <<full[1], full[2],
                        [hash |-> FALSE, members |-> SubSeq(members, 1, k),
                         eos |-> FALSE]>>] : k \in 1..TornMembers}

\* describe, note or session killed inside save_memory.
AnnotateKilled ==
  \E text \in Texts, cmd \in {"describe", "note", "session"} :
    LET l == LoadTarget(cmd = "describe")
        t == now + 1
        memory == IF cmd = "describe" THEN Described(l.rec, text)
                  ELSE IF cmd = "note" THEN Noted(l.rec, text, t)
                  ELSE Sessioned(l.rec, text, t)
    IN /\ l.status = "ok"
       /\ t <= MaxTime
       /\ \E torn \in TornFiles(memory, t) :
            files' = [files EXCEPT ![MemFile] = torn]
       /\ now' = t
       /\ last' = "killed"
       /\ UNCHANGED <<history, current, packs, recorded, notStore>>

\* cmd_pack killed inside the save_memory of its snapshot (the live record is
\* not reached) or inside the save_memory of the live record (the snapshot,
\* if one was due, is written).
PackKilled ==
  \E name \in Aliases \cup {NoAlias}, tree \in Trees, inSnapshot \in BOOLEAN :
    LET loc == IF name = NoAlias THEN LocalFile ELSE name
        existing == load_memory(files[loc])
        t == now + 1
    IN /\ t <= MaxTime
       /\ inSnapshot => TakesSnapshot(name, existing)
       /\ IF inSnapshot
          THEN /\ \E torn \in TornFiles(existing.rec, t) :
                    history' = [history EXCEPT
                                  ![name] = (SnapshotId(t) :> torn) @@ @]
               /\ files' = files
          ELSE /\ history' = IF TakesSnapshot(name, existing)
                             THEN [history EXCEPT
                                     ![name] = save_snapshot(@, existing.rec, t)]
                             ELSE history
               /\ \E torn \in TornFiles(PackMemory(existing, tree, t), t) :
                    files' = [files EXCEPT ![loc] = torn]
       /\ now' = t
       /\ last' = "killed"
       /\ UNCHANGED <<current, packs, recorded, notStore>>

\* ---------------------------------------------------- the store, all runs
NextStore ==
  \/ Pack
  \/ Update
  \/ Use
  \/ Describe
  \/ Note
  \/ Session
  \/ History
  \/ LoadAt
  \/ Wait

\* Every invocation runs to completion.
Init ==
  /\ InitStore
  /\ IdleLoad
  /\ IdleBM
  /\ IdleScan
  /\ IdleLog
  /\ IdleRace
  /\ IdleAn
  /\ IdleStack
  /\ IdleEnt

Spec == Init /\ [][NextStore]_vars

\* Invocations may also be killed while they save.
NextCrash == NextStore \/ AnnotateKilled \/ PackKilled
SpecCrash == Init /\ [][NextCrash]_vars

\* ------------------------------------------- save and load of one file
\* The versions a record file may carry: the one create_empty_memory writes
\* and the one of another format revision.
KnownVersions == {"2.5"}
Versions == KnownVersions \cup {"3.0"}

\* The records a caller hands to save_memory: a packed record, described,
\* noted and given a session or not, of either format revision.
CallerRecords(t) ==
  {[(IF sess THEN Sessioned(IF noted THEN Noted(Described(base, d), "t1", t)
                            ELSE Described(base, d), "t1", t)
     ELSE IF noted THEN Noted(Described(base, d), "t1", t)
     ELSE Described(base, d)) EXCEPT !.version = v] :
     base \in {PackMemory(NotLoaded, tree, t) : tree \in Trees},
     d \in Texts \cup {""}, noted \in BOOLEAN, sess \in BOOLEAN, v \in Versions}

InitLoad ==
  /\ InitStore
  /\ IdleBM
  /\ IdleScan
  /\ IdleLog
  /\ IdleRace
  /\ IdleAn
  /\ IdleStack
  /\ IdleEnt
  /\ at \in 0..(MaxTime - 1)
  /\ arg \in CallerRecords(at)
  /\ lfile = NoFile
  /\ lres = NotLoaded

\* save_memory(arg, filepath) run to completion.
SaveArg ==
  \E t \in at..MaxTime :
    /\ lfile' = SavedFile(arg, t)
    /\ at' = t
    /\ lres' = NotLoaded
    /\ UNCHANGED <<arg, notLoad>>

\* save_memory(arg, filepath) killed between the open and the close.
SaveArgKilled ==
  \E t \in at..MaxTime :
    \E torn \in TornFiles(arg, t) :
      /\ lfile' = torn
      /\ at' = t
      /\ lres' = NotLoaded
      /\ UNCHANGED <<arg, notLoad>>

\* load_memory(filepath)
LoadIt ==
  /\ lres' = load_memory(lfile)
  /\ UNCHANGED <<arg, at, lfile, notLoad>>

NextLoad == SaveArg \/ SaveArgKilled \/ LoadIt
SpecLoad == InitLoad /\ [][NextLoad]_vars

\* -------------------------------------------------------------------- BM25
\* BM25.__init__ defaults: k1 = K1Num / K1Den, b = BNum / BDen.
K1Num == 3
K1Den == 2
BNum == 3
BDen == 4

\* Scores are kept in fixed point, Scale units to one; the logarithm is
\* summed over LnTerms terms of its series.
Scale == 10000
LnTerms == 8

MaxDocs == 3
MaxTokens == 4
MaxQueryLen == 2
MaxTopK == 3

\* A document or a query is the sequence of its whitespace-separated words.
DocWords == {"a", "B"}
QueryWords == {"A", "b"}
Documents == UNION {[1..n -> DocWords] : n \in 0..MaxTokens}
Queries == UNION {[1..n -> QueryWords] : n \in 0..MaxQueryLen}

\* str.lower() followed by split()
Lower(words) ==
  [i \in DOMAIN words |->
     IF words[i] = "A" THEN "a" ELSE IF words[i] = "B" THEN "b" ELSE words[i]]

Range(f) == {f[i] : i \in DOMAIN f}

RECURSIVE Sum(_)
Sum(ns) == IF ns = <<>> THEN 0 ELSE Head(ns) + Sum(Tail(ns))

\* Counter(terms)[term]
Count(term, terms) == Cardinality({i \in DOMAIN terms : terms[i] = term})

\* _compute_doc_freqs: term -> the number of documents holding it.
doc_freqs(documents) ==
  LET terms == UNION {Range(Lower(documents[i])) : i \in DOMAIN documents}
  IN [term \in terms |->
        Cardinality({i \in DOMAIN documents : term \in Range(Lower(documents[i]))})]

\* Scale * (z + z^3/3 + z^5/5 + ...), z = zS / Scale, from the j-th term on.
RECURSIVE AtanhSeries(_, _, _)
AtanhSeries(zS, power, j) ==
  IF j >= LnTerms THEN 0
  ELSE power \div (2 * j + 1)
       + AtanhSeries(zS, ((((power * zS) \div Scale) * zS) \div Scale), j + 1)

\* Scale * math.log(p / q) for p >= q > 0: log x = 2 atanh((x - 1) / (x + 1)).
Log(p, q) ==
  LET zS == ((p - q) * Scale) \div (p + q)
  IN 2 * AtanhSeries(zS, zS, 0)

\* Mutant of compute_idf: the document frequency is taken for its complement,
\* so that common terms weigh more.
compute_idf_common(n, df) ==
  [term \in DOMAIN df |-> Log(2 * n + 2, 2 * (n - df[term]) + 1)]

\* Mutant of compute_idf: the 1 is not added inside the logarithm,
\* log((n - df + 0.5) / (df + 0.5)) = log((2(n - df) + 1) / (2df + 1)).
compute_idf_classic(n, df) ==
  [term \in DOMAIN df |-> Log(2 * (n - df[term]) + 1, 2 * df[term] + 1)]

\* _compute_idf: log((n - df + 0.5) / (df + 0.5) + 1) = log((2n + 2) / (2df + 1))
compute_idf(n, df) == [term \in DOMAIN df |-> Log(2 * n + 2, 2 * df[term] + 1)]

\* BM25.__init__: the engine over the documents.  avg_doc_length is kept as
\* the pair total / n.
BM25(documents) ==
  LET lengths == [i \in DOMAIN documents |-> Len(documents[i])]
      df == doc_freqs(documents)
  IN [documents |-> documents,
      doc_lengths |-> lengths,
      total |-> Sum(lengths),
      n |-> Len(documents),
      doc_freqs |-> df,
      idf |-> compute_idf(Len(documents), df)]

\* One term of score: idf * (numerator / denominator), with
\*   numerator = tf * (k1 + 1),
\*   denominator = tf + k1 * (1 - b + b * doc_length / avg_doc_length),
\* and avg_doc_length = total / n.  Both are multiplied through by
\* K1Den * BDen * total; the term is reached only for a term of the corpus,
\* so total > 0 and the denominator is positive.
TermScore(weight, tf, doc_length, total, n) ==
  LET numerator == tf * (K1Num + K1Den) * BDen * total
      denominator == tf * K1Den * BDen * total
                       + K1Num * ((BDen - BNum) * total + BNum * doc_length * n)
  IN IF denominator # 0 THEN (weight * numerator) \div denominator ELSE 0

\* score(query, doc_idx), doc_idx counted from 0 as in the code.
RECURSIVE ScoreOf(_, _, _)
ScoreOf(self, terms, doc_idx) ==
  IF terms = <<>> THEN 0
  ELSE LET term == Head(terms)
           doc_terms == Lower(self.documents[doc_idx + 1])
           rest == ScoreOf(self, Tail(terms), doc_idx)
       IN IF term \notin DOMAIN self.idf THEN rest
          ELSE TermScore(self.idf[term], Count(term, doc_terms),
                         self.doc_lengths[doc_idx + 1], self.total, self.n) + rest

score(self, q, doc_idx) == ScoreOf(self, Lower(q), doc_idx)

\* Mutant of InIdf: no term is skipped.
InIdfAlways(self, term) == TRUE

\* Line 132, negated: the term is not skipped.
InIdf(self, term) == term \in DOMAIN self.idf

\* avg_doc_length == 0 (line 103): no documents, or no word in any of them.
AvgIsZero(self) == self.n = 0 \/ self.total = 0

\* score raises ZeroDivisionError: a term that is not skipped reaches
\* doc_length / self.avg_doc_length (line 137) with avg_doc_length 0.
ScoreRaises(self, q, doc_idx) ==
  \E i \in DOMAIN q : InIdf(self, Lower(q)[i]) /\ AvgIsZero(self)

\* search raises when one of its calls of score does (line 145).
SearchRaises(self, q) == \E i \in 1..self.n : ScoreRaises(self, q, i - 1)

\* Mutant of Positive: the documents of score 0 are kept.
NonNegative(scores) == SelectSeq(scores, LAMBDA x : x[2] >= 0)

\* scores = [(i, s) for i, s in scores if s > 0]
Positive(scores) == SelectSeq(scores, LAMBDA x : x[2] > 0)

\* scores.sort(key=lambda x: x[1], reverse=True): stable, so of two equal
\* scores the one that stood first stays first.
RECURSIVE SortedByScore(_)
SortedByScore(scores) ==
  IF scores = <<>> THEN <<>>
  ELSE LET n == Len(scores)
           x == scores[n]
           front == SortedByScore(SubSeq(scores, 1, n - 1))
           keep == Cardinality({i \in DOMAIN front : front[i][2] >= x[2]})
       IN SubSeq(front, 1, keep) \o <<x>> \o SubSeq(front, keep + 1, n - 1)

\* search(query, top_k), top_k >= 0: scores[:top_k].
search(self, q, k) ==
  LET scores == [i \in 1..self.n |-> <<i - 1, score(self, q, i - 1)>>]
      sorted == SortedByScore(Positive(scores))
  IN SubSeq(sorted, 1, IF k < Len(sorted) THEN k ELSE Len(sorted))

InitBM25 ==
  /\ InitStore
  /\ IdleLoad
  /\ IdleBM
  /\ IdleScan
  /\ IdleLog
  /\ IdleRace
  /\ IdleAn
  /\ IdleStack
  /\ IdleEnt

\* analyze_project, line 446: one more document in the search corpus.
AppendDocument ==
  \E doc \in Documents :
    /\ results.phase = "idle"
    /\ Len(corpus) < MaxDocs
    /\ Sum([i \in DOMAIN corpus |-> Len(corpus[i])]) + Len(doc) <= MaxTokens
    /\ corpus' = Append(corpus, doc)
    /\ UNCHANGED <<query, top_k, results, notBM>>

\* A search over the corpus is called with a query and a top_k.
Ask ==
  \E q \in Queries, k \in 0..MaxTopK :
    /\ results.phase = "idle"
    /\ query' = q
    /\ top_k' = k
    /\ results' = [phase |-> "called", list |-> <<>>]
    /\ UNCHANGED <<corpus, notBM>>

\* BM25(corpus).search(query, top_k) returns.
Search ==
  /\ results.phase = "called"
  /\ results' = IF SearchRaises(BM25(corpus), query)
                THEN [phase |-> "ZeroDivisionError", list |-> <<>>]
                ELSE [phase |-> "returned",
                      list |-> search(BM25(corpus), query, top_k)]
  /\ UNCHANGED <<corpus, query, top_k, notBM>>

\* The caller is done with the results.
Done ==
  /\ results.phase \in {"returned", "ZeroDivisionError"}
  /\ query' = <<>>
  /\ top_k' = 0
  /\ results' = NoResults
  /\ UNCHANGED <<corpus, notBM>>

NextBM25 == AppendDocument \/ Ask \/ Search \/ Done
SpecBM25 == InitBM25 /\ [][NextBM25]_vars

\* ------------------------------------------------------------ the scan
\* A path is the sequence of its pieces; a pattern is a sequence of pieces
\* and is found in a path where it stands as a contiguous run of them.
Contains(str, pattern) ==
  \E i \in 0..(Len(str) - Len(pattern)) :
    SubSeq(str, i + 1, i + Len(pattern)) = pattern

\* path.lower()
PathLower(path) ==
  [i \in DOMAIN path |->
     IF path[i] = "Test" THEN "test"
     ELSE IF path[i] = "Api" THEN "api" ELSE path[i]]

\* PURPOSE_PATTERNS, in the order of the list.  A pattern is found where one
\* of its alternatives stands in the path, or one of its `ends` ends it.
PURPOSE_PATTERNS ==
  <<[alts |-> {<<"page", "s", "/", "api", "/">>}, ends |-> {},
     purpose |-> "API endpoint"],
    [alts |-> {<<"/", "api", "/">>}, ends |-> {}, purpose |-> "API endpoint"],
    [alts |-> {<<"auth">>, <<"login">>, <<"signup">>, <<"signin">>}, ends |-> {},
     purpose |-> "Authentication"],
    [alts |-> {<<"hook", "/">>, <<"hook", "s", "/">>}, ends |-> {},
     purpose |-> "React hook"],
    [alts |-> {<<"context", "/">>}, ends |-> {}, purpose |-> "Context provider"],
    [alts |-> {<<"store", "/">>}, ends |-> {}, purpose |-> "State management"],
    [alts |-> {<<"lib", "/">>}, ends |-> {}, purpose |-> "Core library"],
    [alts |-> {<<"service", "/">>, <<"service", "s", "/">>}, ends |-> {},
     purpose |-> "Service layer"],
    [alts |-> {<<"util", "/">>, <<"util", "s", "/">>}, ends |-> {},
     purpose |-> "Utility functions"],
    [alts |-> {<<"helper", "/">>, <<"helper", "s", "/">>}, ends |-> {},
     purpose |-> "Helper functions"],
    [alts |-> {<<"type", "/">>, <<"type", "s", "/">>}, ends |-> {},
     purpose |-> "Type definitions"],
    [alts |-> {<<"component", "/">>, <<"component", "s", "/">>}, ends |-> {},
     purpose |-> "UI component"],
    [alts |-> {<<"page", "/">>, <<"page", "s", "/">>}, ends |-> {},
     purpose |-> "Page/Route"],
    [alts |-> {<<"style", "/">>, <<"style", "s", "/">>},
     ends |-> {<<".css">>, <<".scss">>}, purpose |-> "Styles"],
    [alts |-> {<<"config">>}, ends |-> {}, purpose |-> "Configuration"],
    [alts |-> {<<"middleware">>}, ends |-> {}, purpose |-> "Middleware"],
    [alts |-> {<<"test">>, <<"spec">>}, ends |-> {}, purpose |-> "Tests"]>>

\* re.search(pattern, path_lower)
Found(rule, path_lower) ==
  \/ \E alt \in rule.alts : Contains(path_lower, alt)
  \/ \E end \in rule.ends :
       /\ Len(end) <= Len(path_lower)
       /\ SubSeq(path_lower, Len(path_lower) - Len(end) + 1, Len(path_lower)) = end

\* Mutant of FirstPurpose: the rules are tried last to first.
RECURSIVE LastPurpose(_, _)
LastPurpose(rules, path_lower) ==
  IF rules = <<>> THEN "none"
  ELSE IF Found(rules[Len(rules)], path_lower) THEN rules[Len(rules)].purpose
  ELSE LastPurpose(SubSeq(rules, 1, Len(rules) - 1), path_lower)

\* Lines 535-537: the purpose of the first pattern found, "none" when the
\* loop ends without a return.
RECURSIVE FirstPurpose(_, _)
FirstPurpose(rules, path_lower) ==
  IF rules = <<>> THEN "none"
  ELSE IF Found(Head(rules), path_lower) THEN Head(rules).purpose
  ELSE FirstPurpose(Tail(rules), path_lower)

\* str.isupper() of one character
IsUpper(ch) == ch \in {"A", "T", "W"}

\* A class name is the sequence of its characters.
infer_file_purpose(path, classes) ==
  LET found == FirstPurpose(PURPOSE_PATTERNS, PathLower(path))
  IN IF found # "none" THEN found
     ELSE IF classes # <<>> /\ \E i \in DOMAIN classes : IsUpper(classes[i][1])
     THEN "Component"
     ELSE "Code"

\* KEY_FILE_WEIGHTS, in the order of the dict.
KEY_FILE_WEIGHTS ==
  <<[pattern |-> <<"page", "s", "/", "api", "/">>, weight |-> 10],
    [pattern |-> <<"/", "api", "/">>, weight |-> 8],
    [pattern |-> <<"lib", "/">>, weight |-> 7],
    [pattern |-> <<"src", "/", "lib", "/">>, weight |-> 7],
    [pattern |-> <<"hook", "s", "/">>, weight |-> 6],
    [pattern |-> <<"context", "/">>, weight |-> 6],
    [pattern |-> <<"store", "/">>, weight |-> 6],
    [pattern |-> <<"page", "s", "/">>, weight |-> 5],
    [pattern |-> <<"app", "/">>, weight |-> 5],
    [pattern |-> <<"route", "s", "/">>, weight |-> 5],
    [pattern |-> <<"util", "s", "/">>, weight |-> 4],
    [pattern |-> <<"helper", "s", "/">>, weight |-> 4],
    [pattern |-> <<"service", "s", "/">>, weight |-> 5],
    [pattern |-> <<"component", "s", "/">>, weight |-> 3],
    [pattern |-> <<"style", "s", "/">>, weight |-> 1],
    [pattern |-> <<"type", "s", "/">>, weight |-> 2],
    [pattern |-> <<"test">>, weight |-> 0],
    [pattern |-> <<"spec">>, weight |-> 0],
    [pattern |-> <<"__", "test">>, weight |-> 0]>>

\* Lines 580-583: the weight of the first key of the table found in the path.
RECURSIVE PathWeight(_, _)
PathWeight(path_lower, table) ==
  IF table = <<>> THEN 0
  ELSE IF Contains(path_lower, Head(table).pattern) THEN Head(table).weight
  ELSE PathWeight(path_lower, Tail(table))

\* Mutant of FileScore: the reset for test and spec paths is left out.
FileScoreNoReset(f) ==
  LET path_lower == PathLower(f.path)
  IN PathWeight(path_lower, KEY_FILE_WEIGHTS)
     + (IF Contains(path_lower, <<"index">>) \/ Contains(path_lower, <<"main">>)
        THEN 2 ELSE 0)
     + (IF Contains(path_lower, <<"app">>) THEN 2 ELSE 0)
     + (IF Len(f.functions) > 3 THEN 1 ELSE 0)
     + (IF f.lines > 100 THEN 1 ELSE 0)
     + (IF f.lines > 300 THEN 1 ELSE 0)

\* Lines 576-596: the score of one file.
FileScore(f) ==
  LET path_lower == PathLower(f.path)
      added == PathWeight(path_lower, KEY_FILE_WEIGHTS)
               + (IF Contains(path_lower, <<"index">>)
                     \/ Contains(path_lower, <<"main">>) THEN 2 ELSE 0)
               + (IF Contains(path_lower, <<"app">>) THEN 2 ELSE 0)
               + (IF Len(f.functions) > 3 THEN 1 ELSE 0)
               + (IF f.lines > 100 THEN 1 ELSE 0)
               + (IF f.lines > 300 THEN 1 ELSE 0)
  IN IF Contains(path_lower, <<"test">>) \/ Contains(path_lower, <<"spec">>)
     THEN 0 ELSE added

\* s[:n]
Take(str, n) == SubSeq(str, 1, IF n < Len(str) THEN n ELSE Len(str))

\* Lines 598-602: the entries of the files that score.
RECURSIVE ScoredFiles(_)
ScoredFiles(files_data) ==
  IF files_data = <<>> THEN <<>>
  ELSE LET f == Head(files_data)
       IN (IF FileScore(f) > 0
           THEN <<[path |-> f.path, purpose |-> f.purpose,
                   functions |-> Take(f.functions, 3), score |-> FileScore(f)]>>
           ELSE <<>>) \o ScoredFiles(Tail(files_data))

\* Mutant of SortedFiles: the list is left in scan order.
UnsortedFiles(scored_files) == scored_files

\* scored_files.sort(key=lambda x: x["score"], reverse=True), a stable sort.
RECURSIVE SortedFiles(_)
SortedFiles(scored_files) ==
  IF scored_files = <<>> THEN <<>>
  ELSE LET n == Len(scored_files)
           x == scored_files[n]
           front == SortedFiles(SubSeq(scored_files, 1, n - 1))
           keep == Cardinality({i \in DOMAIN front : front[i].score >= x.score})
       IN SubSeq(front, 1, keep) \o <<x>> \o SubSeq(front, keep + 1, n - 1)

\* {k: v for k, v in f.items() if k != "score"}
WithoutScore(f) == [k \in DOMAIN f \ {"score"} |-> f[k]]

identify_key_files(files_data) ==
  LET top == Take(SortedFiles(ScoredFiles(files_data)), 20)
  IN [i \in DOMAIN top |-> WithoutScore(top[i])]

\* The directories a file can lie in, and the name part of its path, are
\* runs of these.
MaxSegments == 3
Segments ==
  {<<"page", "s", "/">>, <<"Api", "/">>, <<"lib", "/">>, <<"app", "/">>,
   <<"Test">>, <<"spec">>, <<"index">>, <<"auth">>}

RECURSIVE PathsOf(_)
PathsOf(n) ==
  IF n = 0 THEN {<<>>}
  ELSE {front \o sg : front \in PathsOf(n - 1), sg \in Segments}

PathStems == UNION {PathsOf(n) : n \in 0..MaxSegments}

\* What extract_code_structure finds in a file, and its number of lines.
FunctionLists == {<<"f", "g", "h">>, <<"f", "g", "h", "k", "l", "m">>}
ClassLists == {<<>>, <<<<"w", "x">>>>, <<<<"w", "x">>, <<"W", "x">>>>}
LineCounts == {100, 101, 301}

\* Lines 431-439: the entry of one file; position numbers the file in the
\* scan and ends its path, so that no two files share a path.
file_info(stem, position, lines, funcs, classes) ==
  [path |-> stem \o <<ToString(position)>>,
   lines |-> lines,
   functions |-> Take(funcs, 5),
   classes |-> classes,
   purpose |-> infer_file_purpose(stem \o <<ToString(position)>>, classes)]

\* analyze_project over a project of one file.
ScanFile ==
  /\ scanned = <<>>
  /\ key_files.phase = "scanning"
  /\ \E stem \in PathStems, lines \in LineCounts,
        funcs \in FunctionLists, classes \in ClassLists :
       scanned' = <<file_info(stem, 1, lines, funcs, classes)>>
  /\ UNCHANGED <<key_files, notScan>>

\* key_files = identify_key_files(files_data, ...), line 453.
Identify ==
  /\ key_files.phase = "scanning"
  /\ key_files' = [phase |-> "identified", list |-> identify_key_files(scanned)]
  /\ UNCHANGED <<scanned, notScan>>

NextScanFile == ScanFile \/ Identify
SpecScanFile == Init /\ [][NextScanFile]_vars

\* A project of several directories.  The files of one directory are alike
\* but for their names: a directory is a path stem, a number of lines and the
\* functions and classes of each file.
MaxDirs == 3
DirSizes == {1, 11}
DirShapes ==
  {[stem |-> <<"lib", "/", "x">>, lines |-> 100, funcs |-> <<"f", "g", "h">>],
   [stem |-> <<"lib", "/", "Api", "/", "x">>, lines |-> 100,
    funcs |-> <<"f", "g", "h">>],
   [stem |-> <<"x">>, lines |-> 101, funcs |-> <<"f", "g", "h", "k", "l", "m">>],
   [stem |-> <<"x">>, lines |-> 100, funcs |-> <<"f", "g", "h">>],
   [stem |-> <<"lib", "/", "Test">>, lines |-> 301,
    funcs |-> <<"f", "g", "h", "k", "l", "m">>]}

\* The directories scanned so far: every directory starts a new hundred of
\* file numbers.
DirsScanned ==
  Cardinality({scanned[i].path[Len(scanned[i].path)] : i \in DOMAIN scanned}
                \cap {ToString(100 * d + 1) : d \in 0..MaxDirs})

\* analyze_project over one more directory of the project.
ScanDirectory ==
  /\ key_files.phase = "scanning"
  /\ DirsScanned < MaxDirs
  /\ \E shape \in DirShapes, size \in DirSizes :
       scanned' = scanned \o
                    [i \in 1..size |->
                       file_info(shape.stem, 100 * DirsScanned + i, shape.lines,
                                 shape.funcs, <<>>)]
  /\ UNCHANGED <<key_files, notScan>>

NextKeyFiles == ScanDirectory \/ Identify
SpecKeyFiles == Init /\ [][NextKeyFiles]_vars

\* ------------------------------------------------------------ query log
\* log_query keeps the last LogCap entries (line 246).
LogCap == 100

\* The model logs up to MaxLogged queries; the first MaxVaried of them are any
\* of QueryTexts, the later ones the first of them.
MaxLogged == 102
MaxVaried == 2
QueryTexts == {"q1", "q2"}

\* The file holds text: a JSON array ("array", with its items), some other
\* JSON value ("object", "number", "null") or text that is no JSON ("invalid").
QueriesFile(kind, items) == [exists |-> TRUE, json |-> kind, items |-> items]

\* Mutant of LastOf: the first n entries are kept.
FirstOf(queries, n) ==
  SubSeq(queries, 1, IF n < Len(queries) THEN n ELSE Len(queries))

\* queries[-n:]
LastOf(queries, n) ==
  SubSeq(queries, IF Len(queries) > n THEN Len(queries) - n + 1 ELSE 1, Len(queries))

\* Lines 230-236: what log_query starts from.  ok is FALSE when what
\* json.loads returned has no append.
ReadQueries(file) ==
  IF ~file.exists \/ file.json = "invalid" THEN [ok |-> TRUE, queries |-> <<>>]
  ELSE IF file.json = "array" THEN [ok |-> TRUE, queries |-> file.items]
  ELSE [ok |-> FALSE, queries |-> <<>>]

\* The entry log_query appends: its date is the reading of a clock that has
\* ticked once for every entry logged before.
QueryEntry(q) ==
  [date |-> IsoFormat(Len(logged) + 1), command |-> "find", query |-> q,
   results |-> 0,
   project |-> IF current = NoAlias THEN "unknown" ELSE current]

\* log_query(query, "find", results_count)
LogQuery ==
  /\ Len(logged) < MaxLogged
  /\ \E q \in QueryTexts :
       /\ Len(logged) >= MaxVaried => q = "q1"
       /\ LET read == ReadQueries(qfile)
          IN IF read.ok
             THEN /\ qfile' = QueriesFile("array",
                                          LastOf(Append(read.queries, QueryEntry(q)),
                                                 LogCap))
                  /\ logged' = Append(logged, QueryEntry(q))
                  /\ qlast' = "ok"
             ELSE /\ qlast' = "AttributeError"
                  /\ UNCHANGED <<qfile, logged>>
  /\ UNCHANGED notLog

NextLog == LogQuery
SpecLog == Init /\ [][NextLog]_vars

\* The queries file as log_query may find it: missing, an array, text that is
\* no JSON, or JSON that is no array.
OtherJson == {"object", "number", "null", "string"}
StartFiles ==
  {NoQueriesFile, QueriesFile("array", <<>>), QueriesFile("invalid", <<>>)}
    \cup {QueriesFile(kind, <<>>) : kind \in OtherJson}

InitLogAny ==
  /\ InitStore
  /\ IdleLoad
  /\ IdleBM
  /\ IdleScan
  /\ qfile \in StartFiles
  /\ logged = <<>>
  /\ qlast = "none"
  /\ IdleRace
  /\ IdleAn
  /\ IdleStack
  /\ IdleEnt

SpecLogAny == InitLogAny /\ [][NextLog]_vars

\* ------------------------------------------- invocations at the same time
\* Two invocations of note or session against the active alias.  Nothing in
\* cmd_note, cmd_session, load_memory or save_memory takes a lock, so their
\* steps interleave freely: the load (line 966), the open that truncates the
\* file (line 313) and the write of the buffered text when the file is closed
\* (line 316).
RaceTexts == Texts \cup {"longer"}
TextSize(text) == IF text = "longer" THEN 2 ELSE 1

\* The length of the text save_memory writes, as far as it differs between
\* the records of the model: it grows with the text of the entries.
RECURSIVE EntriesSize(_, _)
EntriesSize(entries, field) ==
  IF entries = <<>> THEN 0
  ELSE TextSize(Head(entries)[field]) + EntriesSize(Tail(entries), field)

RecordSize(memory) ==
  EntriesSize(memory.decisions, "note") + EntriesSize(memory.sessions, "topic")

\* The length of a file: one that was opened for writing and not written yet
\* is empty.
FileSize(file) ==
  IF Loadable(file) THEN RecordSize(load_memory(file).rec) ELSE 0

\* open(filepath, 'w') before anything is written.
Truncated == [exists |-> TRUE, lines |-> <<>>]

\* What is left of a longer text behind a shorter one written over its start:
\* payload that is no stream of its own.
TailLine == [hash |-> FALSE, members |-> <<>>, eos |-> FALSE]

\* The text of a record whose stamp is already set.
FileOf(memory) ==
  [exists |-> TRUE,
   lines |-> <<CommentLine, CommentLine, PayloadLine(JsonDumps(memory))>>]

\* The file after the text of `memory` is written from offset 0 over `file`.
\* Over a longer text the rest of that text stays behind the new one; the
\* decoder skips it when the new payload ends in padding and reads it as a part
\* of the stream otherwise.
WrittenOver(file, memory) ==
  IF FileSize(file) <= RecordSize(memory) THEN {FileOf(memory)}
  ELSE {FileOf(memory),
        [exists |-> TRUE, lines |-> Append(FileOf(memory).lines, TailLine)]}

\* The times a step may read from the clock.
Readings == {t \in {now, now + 1} : t <= MaxTime}

\* cmd_note and cmd_session up to the save: load, append.
RaceLoad(p) ==
  /\ pc[p] = "ready"
  /\ \E cmd \in {"note", "session"}, text \in RaceTexts, t \in Readings :
       LET l == LoadTarget(FALSE)
       IN /\ IF l.status # "ok"
             THEN /\ pc' = [pc EXCEPT ![p] = "failed"]
                  /\ held' = [held EXCEPT ![p] = [cmd |-> cmd, memory |-> NoRecord]]
             ELSE /\ pc' = [pc EXCEPT ![p] = "appended"]
                  /\ held' = [held EXCEPT ![p] =
                                [cmd |-> cmd,
                                 memory |-> IF cmd = "note"
                                            THEN Noted(l.rec, text, t)
                                            ELSE Sessioned(l.rec, text, t)]]
          /\ now' = t
  /\ UNCHANGED <<files, history, current, last, packs, recorded, closed, notRace>>

\* save_memory up to the open: the stamp, the text, the truncation.
RaceOpen(p) ==
  /\ pc[p] = "appended"
  /\ \E t \in Readings :
       /\ held' = [held EXCEPT ![p].memory = Stamp(held[p].memory, t)]
       /\ now' = t
  /\ files' = [files EXCEPT ![MemFile] = Truncated]
  /\ pc' = [pc EXCEPT ![p] = "opened"]
  /\ UNCHANGED <<history, current, last, packs, recorded, closed, notRace>>

\* The end of the with block: the buffered text is written and the file closed.
RaceClose(p) ==
  /\ pc[p] = "opened"
  /\ \E file \in WrittenOver(files[MemFile], held[p].memory) :
       files' = [files EXCEPT ![MemFile] = file]
  /\ recorded' = [recorded EXCEPT ![MemFile] = LogsOf(held[p].memory)]
  /\ last' = held[p].cmd
  /\ pc' = [pc EXCEPT ![p] = "done"]
  /\ closed' = Append(closed, p)
  /\ UNCHANGED <<now, history, current, packs, held, notRace>>

\* The state the invocations start in: `recall pack proj --name a` has run.
InitRace ==
  /\ now = 1
  /\ files = [l \in Locations |->
                IF l = "a" THEN SavedFile(PackMemory(load_memory(NoFile), 1, 1), 1)
                ELSE NoFile]
  /\ history = [a \in Aliases |-> <<>>]
  /\ current = "a"
  /\ last = "pack"
  /\ packs = [a \in Aliases |-> 1]
  /\ recorded = [l \in Locations |-> NoLogs]
  /\ IdleLoad
  /\ IdleBM
  /\ IdleScan
  /\ IdleLog
  /\ IdleRace
  /\ IdleAn
  /\ IdleStack
  /\ IdleEnt

NextRace == \E p \in Procs : RaceLoad(p) \/ RaceOpen(p) \/ RaceClose(p)
SpecRace == InitRace /\ [][NextRace]_vars

\* -------------------------------------------------------- entity extraction
\* The text of a file is the sequence of its lines.  A line is a comment
\* with one annotation marker and its text, a docstring, a JSDoc comment or
\* code; the text "long" stands for 200 characters or more, "@p" for a JSDoc
\* line that starts with '@'.
MaxLines == 3
Markers == {"TODO", "NOTE", "FIXME", "DECISION", "WARN", "WARNING"}
EntityTexts == {"a", "b"}
Suffixes == {".py", ".ts", ".go"}
Line(marker, text) == [marker |-> marker, text |-> text]
Lines ==
  {Line(marker, text) : marker \in Markers, text \in EntityTexts}
    \cup {Line("docstring", text) : text \in {"a", "long"}}
    \cup {Line("jsdoc", text) : text \in {"a", "@p", "long"}}
    \cup {Line("code", "")}

\* The patterns of extract_entities, in the order of the list (lines 164-168).
ENTITY_PATTERNS ==
  <<[markers |-> {"TODO"}, key |-> "todos"],
    [markers |-> {"NOTE"}, key |-> "notes"],
    [markers |-> {"FIXME"}, key |-> "warnings"],
    [markers |-> {"DECISION"}, key |-> "decisions"],
    [markers |-> {"WARN", "WARNING"}, key |-> "warnings"]>>

\* The group(1) of every re.finditer match of a set of markers, in the order
\* of the text.
RECURSIVE Matches(_, _)
Matches(text, markers) ==
  IF text = <<>> THEN <<>>
  ELSE (IF Head(text).marker \in markers THEN <<Head(text).text>> ELSE <<>>)
       \o Matches(Tail(text), markers)

\* Lines 171-173: the outer loop runs over the
\* patterns, the inner one over the matches of one pattern.
RECURSIVE AfterPatterns(_, _, _)
AfterPatterns(found, patterns, text) ==
  IF patterns = <<>> THEN found
  ELSE LET pattern == Head(patterns)
       IN AfterPatterns(
            [found EXCEPT ![pattern.key] = @ \o Matches(text, pattern.markers)],
            Tail(patterns), text)

\* Lines 176-190: the first line of every short docstring of a Python file,
\* of every short JSDoc comment of a JS/TS file that does not start with '@'.
Descriptions(text, sfx) ==
  IF sfx = ".py"
  THEN Matches(SelectSeq(text, LAMBDA l : l.text # "long"), {"docstring"})
  ELSE IF sfx = ".ts"
  THEN Matches(SelectSeq(text, LAMBDA l : l.text \notin {"long", "@p"}), {"jsdoc"})
  ELSE <<>>

extract_entities(text, sfx) ==
  [AfterPatterns(NotExtracted, ENTITY_PATTERNS, text)
     EXCEPT !.phase = "extracted", !.descriptions = Descriptions(text, sfx)]

InitEntities ==
  /\ InitStore
  /\ IdleLoad
  /\ IdleBM
  /\ IdleScan
  /\ IdleLog
  /\ IdleRace
  /\ IdleAn
  /\ IdleStack
  /\ content = <<>>
  /\ suffix \in Suffixes
  /\ entities = NotExtracted

\* One more line of the file.
WriteLine ==
  /\ entities.phase = "idle"
  /\ Len(content) < MaxLines
  /\ \E line \in Lines : content' = Append(content, line)
  /\ UNCHANGED <<suffix, entities, notEnt>>

\* entities = extract_entities(content, str(rel_path), suffix), line 427.
Extract ==
  /\ entities.phase = "idle"
  /\ entities' = extract_entities(content, suffix)
  /\ UNCHANGED <<content, suffix, notEnt>>

NextEntities == WriteLine \/ Extract
SpecEntities == InitEntities /\ [][NextEntities]_vars

\* ---------------------------------------------------------- stack detection
\* An import is the sequence of the pieces of its name, a path likewise.
ImportNames ==
  {<<"react">>, <<"next">>, <<"express">>, <<"@", "supabase">>, <<"prisma">>,
   <<"tailwindcss">>}
StackPaths ==
  {<<"a", ".tsx">>, <<"page", "s", "/", "a", ".js">>,
   <<"tailwind", ".config", ".js">>, <<"main", ".py">>}
ExtensionCounts == [{".ts", ".tsx", ".py"} -> 0..1]

\* pattern in str(list(imports)).lower()
InImports(all_imports, pattern) ==
  \E name \in all_imports : Contains(PathLower(name), pattern)

\* any(pattern in str(f.get('path', '')) for f in files)
InPaths(paths, pattern) == \E path \in paths : Contains(path, pattern)

\* One `if` of detect_stack: the key is set when the condition holds.
SetIf(condition, key, value) == IF condition THEN key :> value ELSE <<>>

\* detect_stack(imports, extensions, files): the keys and their values.
detect_stack(all_imports, counts, paths) ==
  LET frontend ==
        InImports(all_imports, <<"react">>) \/ InPaths(paths, <<".tsx">>)
      framework ==
        frontend /\ (\/ InImports(all_imports, <<"next">>)
                     \/ InPaths(paths, <<"page", "s", "/">>))
      styling ==
        \/ InImports(all_imports, <<"tailwindcss">>)
        \/ InPaths({PathLower(path) : path \in paths}, <<"tailwind">>)
  IN SetIf(frontend, "frontend", "React")
     @@ SetIf(framework, "framework", "Next.js")
     @@ SetIf(InImports(all_imports, <<"express">>), "backend", "Express")
     @@ SetIf(InImports(all_imports, <<"supabase">>), "database", "Supabase")
     @@ SetIf(InImports(all_imports, <<"prisma">>), "orm", "Prisma")
     @@ SetIf(styling, "styling", "Tailwind CSS")
     @@ (IF counts[".ts"] + counts[".tsx"] > 0
         THEN "language" :> "TypeScript"
         ELSE SetIf(counts[".py"] > 0, "language", "Python"))

InitStack ==
  /\ InitStore
  /\ IdleLoad
  /\ IdleBM
  /\ IdleScan
  /\ IdleLog
  /\ IdleRace
  /\ IdleAn
  /\ IdleEnt
  /\ imports = {}
  /\ extensions \in ExtensionCounts
  /\ sfiles = {}
  /\ stack = NotDetected

\* all_imports.update(imports), line 451.
AddImport ==
  /\ stack.phase = "idle"
  /\ \E name \in ImportNames \ imports : imports' = imports \cup {name}
  /\ UNCHANGED <<extensions, sfiles, stack, notStack>>

\* files_data.append(file_info), line 448.
AddFile ==
  /\ stack.phase = "idle"
  /\ \E path \in StackPaths \ sfiles : sfiles' = sfiles \cup {path}
  /\ UNCHANGED <<imports, extensions, stack, notStack>>

\* stack = detect_stack(all_imports, by_extension, files_data), line 464.
Detect ==
  /\ stack.phase = "idle"
  /\ stack' = [phase |-> "detected",
               dict |-> detect_stack(imports, extensions, sfiles)]
  /\ UNCHANGED <<imports, extensions, sfiles, notStack>>

NextStack == AddImport \/ AddFile \/ Detect
SpecStack == InitStack /\ [][NextStack]_vars

\* ------------------------------------------------------- analyze_project
\* The walk of analyze_project, one code file at a step.  What is inside the
\* try of a file (lines 414-461) either runs to its end or raises: in
\* read_text (line 415), before anything of the file is recorded, or in the
\* processing of the text (lines 420-429), after the file is counted in
\* by_extension and before it is entered in any list.
MaxWalk == 4
WalkStems == {<<>>, <<"lib", "/", "index">>, <<"app", "/">>}
WalkClasses == {<<>>, <<<<"W", "x">>>>}
Outcomes == {"ok", "unreadable", "unprocessable"}

\* Line 442: the path, the purpose, the functions and the classes of a file,
\* as the words of its document.
CorpusEntry(f) == <<f.path, f.purpose>> \o f.functions \o f.classes

\* Mutant of CorpusPosition: the place of the file in the walk.
WalkPosition(corpus_, visited) == visited

\* Line 443: len(search_corpus) before the document is appended.
CorpusPosition(corpus_, visited) == Len(corpus_)

InitAnalyze ==
  /\ InitStore
  /\ IdleLoad
  /\ IdleBM
  /\ IdleScan
  /\ IdleLog
  /\ IdleRace
  /\ IdleEnt
  /\ IdleStack
  /\ IdleAn

\* One more file of the walk.
WalkFile ==
  /\ analysis.phase = "walking"
  /\ walked < MaxWalk
  /\ walked' = walked + 1
  /\ \E stem \in WalkStems, classes \in WalkClasses, outcome \in Outcomes :
       LET f == file_info(stem, walked + 1, 100, <<"f", "g", "h">>, classes)
       IN CASE outcome = "ok" ->
                 /\ by_extension' = by_extension + 1
                 /\ file_to_corpus_idx' =
                      (f.path :> CorpusPosition(search_corpus, walked))
                        @@ file_to_corpus_idx
                 /\ search_corpus' = Append(search_corpus, CorpusEntry(f))
                 /\ scanned' = Append(scanned, f)
            [] outcome = "unprocessable" ->
                 /\ by_extension' = by_extension + 1
                 /\ UNCHANGED <<file_to_corpus_idx, search_corpus, scanned>>
            [] outcome = "unreadable" ->
                 UNCHANGED <<by_extension, file_to_corpus_idx, search_corpus,
                             scanned>>
  /\ UNCHANGED <<analysis, key_files, notAn>>

\* Lines 469-490: the walk is over, the result is returned.
Return ==
  /\ analysis.phase = "walking"
  /\ analysis' = [phase |-> "returned", files |-> scanned,
                  search_corpus |-> search_corpus,
                  file_to_corpus_idx |-> file_to_corpus_idx,
                  total_files |-> Len(scanned), by_extension |-> by_extension]
  /\ UNCHANGED <<walked, by_extension, search_corpus, file_to_corpus_idx,
                 scanned, key_files, notAn>>

NextAnalyze == WalkFile \/ Return
SpecAnalyze == InitAnalyze /\ [][NextAnalyze]_vars

\* ================================================================= claims
LiveRec(l) == load_memory(files[l]).rec
NewLiveRec(l) == load_memory(files'[l]).rec

IsPrefix(s, u) == Len(s) <= Len(u) /\ SubSeq(u, 1, Len(s)) = s

SameStructure(r1, r2) == \A f \in StructuralFields : r1[f] = r2[f]

SameButUpdated(r1, r2) ==
  /\ DOMAIN r1 = DOMAIN r2
  /\ \A f \in DOMAIN r1 \ {"updated"} : r1[f] = r2[f]

\* The step is a pack that wrote the record at location l over a loadable one.
PackedOver(l) == last' = "pack" /\ files'[l] # files[l] /\ Loadable(files[l])

\* The step is a completed pack under alias a.
AliasPackStep(a) == packs'[a] = packs[a] + 1

StrictlyDecreasing(listed) ==
  \A i \in 1..(Len(listed) - 1) : StrLess(listed[i + 1].id, listed[i].id)

\* C1: after N >= 1 packs of the project under one alias, list-history of the
\* alias returns exactly N-1 snapshot identifiers, newest first, strictly
\* decreasing.
C1_HistoryListsEveryRepack ==
  \A a \in Aliases :
    packs[a] >= 1 =>
      LET listed == list_snapshots(history[a])
      IN Len(listed) = packs[a] - 1 /\ StrictlyDecreasing(listed)

\* C2: a re-pack of a project whose structure is unchanged leaves the stored
\* decisions and sessions as they were, and the stored updated timestamp is
\* strictly greater than before.
C2_RepackKeepsAnnotations ==
  [][\A l \in Locations :
       (PackedOver(l) /\ SameStructure(LiveRec(l), NewLiveRec(l))) =>
         /\ NewLiveRec(l).decisions = LiveRec(l).decisions
         /\ NewLiveRec(l).sessions = LiveRec(l).sessions
         /\ StrLess(LiveRec(l).updated, NewLiveRec(l).updated)]_vars

\* A record with a decision and a session was just re-packed with the
\* structure it had: its snapshot holds the same structure and the same logs.
C2_Witness ==
  \E a \in Aliases :
    /\ last = "pack"
    /\ Loadable(files[a])
    /\ LiveRec(a).updated = IsoFormat(now)
    /\ LiveRec(a).decisions # <<>>
    /\ LiveRec(a).sessions # <<>>
    /\ \E id \in DOMAIN history[a] :
         LET s == load_memory(history[a][id])
         IN /\ s.status = "ok"
            /\ SameStructure(s.rec, LiveRec(a))
            /\ s.rec.decisions = LiveRec(a).decisions
            /\ s.rec.sessions = LiveRec(a).sessions

\* C4: a pack under an alias that overwrites a live record writes a snapshot
\* of that record to the alias's history; history changes in no other step
\* (not by describe, note, session, load, nor by a pack without an alias).
C4_SnapshotOnEveryAliasRepack ==
  [][/\ \A a \in Aliases :
          (AliasPackStep(a) /\ Loadable(files[a])) =>
            \E id \in DOMAIN history'[a] :
              LET s == load_memory(history'[a][id])
              IN /\ s.status = "ok"
                 /\ SameButUpdated(s.rec, LiveRec(a))
                 /\ StrLess(IsoFormat(now), s.rec.updated)
     /\ \A a \in Aliases :
          history'[a] # history[a] => AliasPackStep(a) /\ Loadable(files[a])]_vars

\* An alias was packed twice and has a snapshot, and the project was also
\* packed without an alias.
C4_Witness ==
  \E a \in Aliases :
    /\ packs[a] >= 2
    /\ DOMAIN history[a] # {}
    /\ files[LocalFile].exists
    /\ last = "pack"

\* C5: a snapshot stored under an identifier is never modified, replaced or
\* removed by a later operation.
C5_SnapshotsWriteOnce ==
  [][\A a \in Aliases :
       \A id \in DOMAIN history[a] :
         id \in DOMAIN history'[a] /\ history'[a][id] = history[a][id]]_vars

\* The day a date string names, and the snapshots dated on or before a day.
DayOfDate(digits) == digits[1] * DaysPerMonth + digits[2]
Eligible(h, day) == {id \in DOMAIN h : DayOfDate(DatePart(id)) <= day}

C3_LogsOnlyGrow ==
  [][\A l \in Locations :
       Loadable(files'[l]) =>
         /\ IsPrefix(recorded[l].decisions, NewLiveRec(l).decisions)
         /\ IsPrefix(recorded[l].sessions, NewLiveRec(l).sessions)]_vars

\* C8: an interrupted save leaves the complete previous record or the
\* complete new one: no backing location ever holds a partial file.
C8_NoPartialFile ==
  /\ \A l \in Locations : files[l].exists => Loadable(files[l])
  /\ \A a \in Aliases : \A id \in DOMAIN history[a] : Loadable(history[a][id])

\* load_memory has run on a file that a save_memory wrote to the end.
LoadedWholeFile ==
  /\ lres # NotLoaded
  /\ lfile.exists
  /\ Len(lfile.lines) = 3
  /\ lfile.lines[3].eos

C9_LoadRejectsInvalid ==
  lres # NotLoaded =>
    /\ ~lfile.exists => lres.status = "missing"
    /\ (lfile.exists /\ ~LoadedWholeFile) => lres.status = "corrupt"
    /\ lres.status = "ok" => lres.rec.version \in KnownVersions

ResultIndices == {results.list[i][1] : i \in DOMAIN results.list}

\* C10: search(query, k), k >= 0, returns at most k results, each of score
\* > 0, each index a valid document index appearing once, in order of
\* non-increasing score.
C10_SearchTopK ==
  results.phase = "returned" =>
    LET list == results.list
    IN /\ Len(list) <= top_k
       /\ \A i \in DOMAIN list :
            /\ list[i][2] > 0
            /\ list[i][1] \in 0..(Len(corpus) - 1)
       /\ Cardinality(ResultIndices) = Len(list)
       /\ \A i \in 1..(Len(list) - 1) : list[i][2] >= list[i + 1][2]

\* Three documents match, two are asked for, and the better of the two
\* returned stands later in the corpus.
C10_Witness ==
  /\ results.phase = "returned"
  /\ top_k = 2
  /\ Len(results.list) = 2
  /\ Len(Positive([i \in 1..Len(corpus) |->
                     <<i - 1, score(BM25(corpus), query, i - 1)>>])) = 3
  /\ results.list[1][1] > results.list[2][1]
  /\ results.list[1][2] > results.list[2][2]

\* C11: in any corpus idf is non-increasing in document frequency; a term of
\* every document weighs no more than a term of exactly one document.
C11_IdfMonotonic ==
  LET self == BM25(corpus)
  IN \A t1, t2 \in DOMAIN self.idf :
       self.doc_freqs[t1] <= self.doc_freqs[t2] => self.idf[t1] >= self.idf[t2]

\* A corpus of three documents with one term in all of them and another in
\* exactly one, the engine having been searched.
C11_Witness ==
  LET self == BM25(corpus)
  IN /\ results.phase = "returned"
     /\ self.n = 3
     /\ \E t1, t2 \in DOMAIN self.idf :
          /\ self.doc_freqs[t1] = 1
          /\ self.doc_freqs[t2] = self.n
          /\ self.idf[t1] > self.idf[t2]

\* The lower-cased path of the file holds "test" or "spec".
TestPath(f) ==
  Contains(PathLower(f.path), <<"test">>) \/ Contains(PathLower(f.path), <<"spec">>)

KeyFilePaths == {key_files.list[j].path : j \in DOMAIN key_files.list}

\* C12: a file whose lower-cased path contains "test" or "spec" scores
\* exactly 0 and is not in the key-file list, whatever else would add to its
\* score.
C12_TestFilesScoreZero ==
  \A i \in DOMAIN scanned :
    TestPath(scanned[i]) =>
      /\ FileScore(scanned[i]) = 0
      /\ scanned[i].path \notin KeyFilePaths

\* The key files were identified of a file under lib/ with "index" and "Test"
\* in its path, more than 3 functions and more than 300 lines.
C12_Witness ==
  /\ key_files.phase = "identified"
  /\ \E i \in DOMAIN scanned :
       /\ TestPath(scanned[i])
       /\ Contains(scanned[i].path, <<"Test">>)
       /\ PathWeight(PathLower(scanned[i].path), KEY_FILE_WEIGHTS) = 7
       /\ Contains(scanned[i].path, <<"index">>)
       /\ Len(scanned[i].functions) > 3
       /\ scanned[i].lines > 300

\* C13: a step that writes a live record over another leaves created as it
\* was and sets updated to the time of the save; created <= updated in every
\* record a step stores, snapshots included.
C13_CreatedFixedUpdatedRefreshed ==
  [][/\ \A l \in Locations :
          files'[l] # files[l] =>
            /\ Loadable(files'[l])
            /\ NewLiveRec(l).updated = IsoFormat(now')
            /\ StrLeq(NewLiveRec(l).created, NewLiveRec(l).updated)
            /\ Loadable(files[l]) => NewLiveRec(l).created = LiveRec(l).created
     /\ \A a \in Aliases :
          \A id \in DOMAIN history'[a] :
            LET snap == load_memory(history'[a][id]).rec
            IN StrLeq(snap.created, snap.updated)]_vars

\* An alias packed at least twice and annotated in between still carries the
\* created of its first pack, which is earlier than its updated.
C13_Witness ==
  \E a \in Aliases :
    /\ packs[a] >= 2
    /\ last = "pack"
    /\ LiveRec(a).decisions # <<>>
    /\ LiveRec(a).updated = IsoFormat(now)
    /\ StrLess(LiveRec(a).created, LiveRec(a).decisions[1].date)

\* The two records agree on every field but those of `fields`.
SameBut(r1, r2, fields) ==
  /\ DOMAIN r1 = DOMAIN r2
  /\ \A f \in DOMAIN r1 \ fields : r1[f] = r2[f]

\* C14: describe changes only description, note only appends one entry to
\* decisions, session only appends one entry to sessions (each besides
\* updated), and pack leaves description as it was.
C14_AnnotationsChangeOwnField ==
  [][\A l \in Locations :
       files'[l] # files[l] =>
         /\ last' = "describe" =>
              SameBut(NewLiveRec(l), LiveRec(l), {"description", "updated"})
         /\ last' = "note" =>
              /\ SameBut(NewLiveRec(l), LiveRec(l), {"decisions", "updated"})
              /\ Len(NewLiveRec(l).decisions) = Len(LiveRec(l).decisions) + 1
              /\ IsPrefix(LiveRec(l).decisions, NewLiveRec(l).decisions)
         /\ last' = "session" =>
              /\ SameBut(NewLiveRec(l), LiveRec(l), {"sessions", "updated"})
              /\ Len(NewLiveRec(l).sessions) = Len(LiveRec(l).sessions) + 1
              /\ IsPrefix(LiveRec(l).sessions, NewLiveRec(l).sessions)
         /\ (last' = "pack" /\ Loadable(files[l])) =>
              NewLiveRec(l).description = LiveRec(l).description]_vars

\* A note was just added to a record that has a description and a session.
C14_Witness ==
  /\ last = "note"
  /\ MemFile # NoAlias
  /\ Loadable(files[MemFile])
  /\ Len(LiveRec(MemFile).decisions) = 1
  /\ LiveRec(MemFile).sessions # <<>>
  /\ LiveRec(MemFile).description # ""

\* C15: the snapshot a re-pack writes equals, in every field, updated
\* included, the live record as it was stored before the re-pack.
C15_SnapshotExactCopy ==
  [][\A a \in Aliases :
       (AliasPackStep(a) /\ Loadable(files[a])) =>
         \E id \in DOMAIN history'[a] :
           load_memory(history'[a][id]).rec = LiveRec(a)]_vars

\* C16: after any sequence of log_query calls the persisted log holds at
\* most 100 entries, and they are the most recent min(n, 100) of the n
\* logged, in the order they were logged.
C16_LogKeepsLastHundred ==
  qlast # "none" =>
    /\ qfile.exists
    /\ qfile.json = "array"
    /\ Len(qfile.items) <= 100
    /\ Len(qfile.items) = (IF Len(logged) < 100 THEN Len(logged) ELSE 100)
    /\ \A i \in DOMAIN qfile.items :
         qfile.items[i] = logged[Len(logged) - Len(qfile.items) + i]

\* More than 100 queries were logged, the first of them differing from the
\* one that is now the oldest kept.
C16_Witness ==
  /\ Len(logged) > 100
  /\ Len(qfile.items) = 100
  /\ logged[1].query # qfile.items[1].query
  /\ qfile.items[100] = logged[Len(logged)]

\* C17: log_query treats a queries file that is not an array of entries
\* (text that is no JSON, or JSON that is no array) as an empty log: the call
\* returns and leaves a log holding exactly the new entry.
C17_MalformedLogIsEmptyLog ==
  [][(qfile.exists /\ qfile.json # "array") =>
       /\ qlast' = "ok"
       /\ qfile' = QueriesFile("array", <<logged'[Len(logged')]>>)]_vars

\* C18: when two invocations load, change and save the live record of one
\* alias at the same time, the live record they leave is the one written by
\* the save that ended last.
C18_LastSaveWins ==
  ((\A p \in Procs : pc[p] \in {"done", "failed"}) /\ closed # <<>>) =>
    load_memory(files[MemFile]) =
      [status |-> "ok", rec |-> held[closed[Len(closed)]].memory]

\* The rules of PURPOSE_PATTERNS found in the lower-cased path of a file.
RulesFound(f) ==
  {k \in DOMAIN PURPOSE_PATTERNS : Found(PURPOSE_PATTERNS[k], PathLower(f.path))}

\* C19: every scanned file has a purpose: the label of the first rule of
\* PURPOSE_PATTERNS found in its lower-cased path, so "API endpoint" for a
\* path holding "/api/" whatever later rule it also matches; with no rule
\* found, "Component" if a class name starts with an uppercase letter and
\* "Code" otherwise.
C19_PurposeOfFirstRule ==
  \A i \in DOMAIN scanned :
    LET f == scanned[i]
    IN /\ RulesFound(f) # {} =>
            \E k \in RulesFound(f) :
              /\ \A j \in RulesFound(f) : k <= j
              /\ f.purpose = PURPOSE_PATTERNS[k].purpose
       /\ Contains(PathLower(f.path), <<"/", "api", "/">>) =>
            f.purpose = "API endpoint"
       /\ RulesFound(f) = {} =>
            f.purpose = (IF \E c \in DOMAIN f.classes : f.classes[c][1] \in {"A", "T", "W"}
                         THEN "Component" ELSE "Code")

\* A file under lib/Api/ with "auth" in its name: the rules of "/api/", of
\* "auth" and of "lib/" are all found, and the purpose is "API endpoint".
C19_Witness ==
  \E i \in DOMAIN scanned :
    /\ 1 \notin RulesFound(scanned[i])
    /\ {2, 3, 7} \subseteq RulesFound(scanned[i])
    /\ scanned[i].purpose = "API endpoint"

\* What identify_key_files adds to the score of a file after the weight of
\* its path.
Bonus(f) ==
  LET path_lower == PathLower(f.path)
  IN (IF Contains(path_lower, <<"index">>) \/ Contains(path_lower, <<"main">>)
      THEN 2 ELSE 0)
     + (IF Contains(path_lower, <<"app">>) THEN 2 ELSE 0)
     + (IF Len(f.functions) > 3 THEN 1 ELSE 0)
     + (IF f.lines > 100 THEN 1 ELSE 0)
     + (IF f.lines > 300 THEN 1 ELSE 0)

\* The keys of KEY_FILE_WEIGHTS found in the lower-cased path of a file.
KeysFound(f) ==
  {k \in DOMAIN KEY_FILE_WEIGHTS :
     Contains(PathLower(f.path), KEY_FILE_WEIGHTS[k].pattern)}

\* The score of every scanned file, by its place in the scan.
Scores == [i \in DOMAIN scanned |-> FileScore(scanned[i])]

\* The scanned files that score.
Qualifying == {i \in DOMAIN scanned : Scores[i] > 0}

\* The place in the scan of the file of every key-file entry.
ScanIndex ==
  [j \in DOMAIN key_files.list |->
     CHOOSE i \in DOMAIN scanned : scanned[i].path = key_files.list[j].path]

\* C20: the key-file list holds only files that score more than 0, at most 20
\* of them, by non-increasing score and in scan order among equal scores; it
\* is the 20 that rank first when more than 20 score; no entry has a score
\* field; and the score of a file outside test and spec paths is the weight
\* of the first key of the weight table found in its path, plus the bonuses.
C20_KeyFilesTopTwenty ==
  key_files.phase = "identified" =>
    LET list == key_files.list
        sc == Scores @@ <<>>
        q == {i \in DOMAIN scanned : sc[i] > 0}
        at_ == ScanIndex @@ <<>>
        listed == {at_[j] : j \in DOMAIN list}
        before(i, j) == sc[i] > sc[j] \/ (sc[i] = sc[j] /\ i < j)
    IN /\ Len(list) <= 20
       /\ Len(list) = (IF Cardinality(q) < 20 THEN Cardinality(q) ELSE 20)
       /\ \A j \in DOMAIN list :
            /\ DOMAIN list[j] = {"path", "purpose", "functions"}
            /\ \E i \in q : scanned[i].path = list[j].path
            /\ list[j].purpose = scanned[at_[j]].purpose
            /\ list[j].functions = Take(scanned[at_[j]].functions, 3)
       /\ \A j1, j2 \in DOMAIN list : j1 < j2 => before(at_[j1], at_[j2])
       /\ \A i \in q \ listed : \A j \in listed : before(j, i)
       /\ \A i \in DOMAIN scanned :
            ~TestPath(scanned[i]) =>
              IF KeysFound(scanned[i]) = {}
              THEN sc[i] = Bonus(scanned[i])
              ELSE \E k \in KeysFound(scanned[i]) :
                     /\ \A k2 \in KeysFound(scanned[i]) : k <= k2
                     /\ sc[i] = KEY_FILE_WEIGHTS[k].weight + Bonus(scanned[i])

\* More than 20 files score; the list ends inside a run of files of one
\* score, holds files of a higher score scanned after them, and one of its
\* files has two keys of the weight table in its path.
C20_Witness ==
  /\ key_files.phase = "identified"
  /\ Cardinality(Qualifying) > 20
  /\ Len(key_files.list) = 20
  /\ \E i \in Qualifying :
       /\ \A j \in DOMAIN key_files.list : ScanIndex[j] # i
       /\ Scores[i] = Scores[ScanIndex[20]]
  /\ ScanIndex[1] > ScanIndex[20]
  /\ \E j \in DOMAIN key_files.list :
       Cardinality(KeysFound(scanned[ScanIndex[j]])) > 1

\* The category of every annotation marker.
CategoryOf(marker) ==
  CASE marker = "TODO" -> "todos"
    [] marker = "NOTE" -> "notes"
    [] marker = "DECISION" -> "decisions"
    [] marker \in {"FIXME", "WARN", "WARNING"} -> "warnings"
    [] OTHER -> "none"

\* The annotations of one category, one entry each, in the order of the text.
InTextOrder(category) ==
  Matches(content, {marker \in Markers : CategoryOf(marker) = category})

\* C21: every category of the extracted entities holds one entry per
\* annotation of the text, repeated ones included, in the order the
\* annotations appear in the text; so does the warnings list built from FIXME
\* and WARN/WARNING markers.
C21_EntitiesInTextOrder ==
  entities.phase = "extracted" =>
    /\ \A category \in {"todos", "notes", "decisions", "warnings"} :
         entities[category] = InTextOrder(category)
    /\ entities.descriptions = Descriptions(content, suffix)

\* C22: in every detected stack the framework key and the styling key are
\* present only when the frontend key is.
C22_FrameworkStylingNeedFrontend ==
  stack.phase = "detected" =>
    (("framework" \in DOMAIN stack.dict \/ "styling" \in DOMAIN stack.dict) =>
       "frontend" \in DOMAIN stack.dict)

\* C23 as stated: the idf can be negative for a term of more than half of
\* the documents.  The idf of a term is a function of the number n of
\* documents and of its document frequency df alone, so by the time the corpus
\* has grown to MaxDocs documents there is, among the sizes n it went through
\* and the frequencies df > n / 2 a term can have in them, one of negative idf.
C23_IdfCanBeNegative ==
  Len(corpus) = MaxDocs =>
    \E n \in 1..Len(corpus) : \E df \in 1..n :
      /\ 2 * df > n
      /\ compute_idf(n, [term \in {"a"} |-> df])["a"] < 0

\* C23, amended: in the engine of every search the idf of every term of the
\* corpus is strictly positive, also when the term occurs in more than half of
\* the documents.
C23_IdfPositive ==
  results.phase = "returned" =>
    LET self == BM25(corpus)
    IN \A term \in DOMAIN self.idf : self.idf[term] > 0

\* The engine was searched over a corpus of at least two documents with a
\* term in more than half of them and a term in no more than half.
C23_Witness ==
  LET self == BM25(corpus)
  IN /\ results.phase = "returned"
     /\ self.n >= 2
     /\ \E t1, t2 \in DOMAIN self.idf :
          /\ 2 * self.doc_freqs[t1] > self.n
          /\ 2 * self.doc_freqs[t2] <= self.n
          /\ self.idf[t1] > 0

\* The denominator of line 137 for a term of frequency tf in a document,
\* multiplied through by K1Den * BDen * total.
Denominator(self, tf, doc_idx) ==
  tf * K1Den * BDen * self.total
    + K1Num * ((BDen - BNum) * self.total
                 + BNum * self.doc_lengths[doc_idx + 1] * self.n)

\* C24: no search fails with a division by zero, whatever the corpus and the
\* query: a query term is either skipped, contributing zero, or divides by
\* an average length and a denominator that are both positive; a search over
\* an empty corpus returns the empty list.
C24_NoDivisionByZero ==
  LET self == BM25(corpus)
  IN /\ results.phase # "ZeroDivisionError"
     /\ results.phase = "returned" =>
          \A d \in 1..self.n : \A i \in DOMAIN query :
            LET term == Lower(query)[i]
            IN IF term \in DOMAIN self.idf
               THEN /\ ~AvgIsZero(self)
                    /\ Denominator(self, Count(term, Lower(corpus[d])), d - 1) > 0
               ELSE ScoreOf(self, <<term>>, d - 1) = 0
     /\ (results.phase = "returned" /\ corpus = <<>>) => results.list = <<>>
     /\ (results.phase = "returned" /\ AvgIsZero(self)) => results.list = <<>>

\* A search with a query of two words has returned over a corpus of two
\* documents without a word, its average length 0.
C24_Witness ==
  /\ results.phase = "returned"
  /\ Len(corpus) = 2
  /\ \A d \in DOMAIN corpus : corpus[d] = <<>>
  /\ Len(query) = 2
  /\ results.list = <<>>

\* C25: in every result of analyze_project the corpus has one document per
\* file record, in the order of the records; file_to_corpus_idx is defined on
\* the paths of the records and on nothing else, maps the path of record i to
\* the place i of its document and no two paths to one place; and
\* stats.total_files is the number of records, also when files were skipped.
C25_CorpusIndexAgrees ==
  analysis.phase = "returned" =>
    LET fs == analysis.files
        idx == analysis.file_to_corpus_idx
    IN /\ Len(analysis.search_corpus) = Len(fs)
       /\ \A i \in DOMAIN fs : analysis.search_corpus[i] = CorpusEntry(fs[i])
       /\ DOMAIN idx = {fs[i].path : i \in DOMAIN fs}
       /\ \A i \in DOMAIN fs : idx[fs[i].path] = i - 1
       /\ \A p1, p2 \in DOMAIN idx : idx[p1] = idx[p2] => p1 = p2
       /\ analysis.total_files = Len(fs)

\* A result of a walk of four files: the first unreadable, the third failed
\* in processing, the second and the fourth recorded.
C25_Witness ==
  /\ analysis.phase = "returned"
  /\ walked = 4
  /\ analysis.by_extension = 3
  /\ Len(analysis.files) = 2
  /\ analysis.files[1].path[Len(analysis.files[1].path)] = "2"
  /\ analysis.files[2].path[Len(analysis.files[2].path)] = "4"
====
